---- MODULE Spec2Model ----
(***************************************************************************)
(* Model of the controller API client (controller/client/client.go):       *)
(* the request executor rawReq, the job event stream (sseDecoder and the   *)
(* producer goroutine of StreamJobEvents), the formation RPC stream and    *)
(* the attach call.                                                        *)
(***************************************************************************)
EXTENDS Integers, Sequences, FiniteSets, TLC

(***************************************************************************)
(* Bounds of the model.                                                    *)
(***************************************************************************)
\* largest value carried by a JSON payload (payloads are 0..MaxVal)
MaxVal == 1

(***************************************************************************)
(* Bytes and the JSON subset used on the wire.  A byte is a one-character  *)
(* string; a JSON document of the model is a decimal number, optionally    *)
(* surrounded by white space, as encoding/json accepts it.                 *)
(***************************************************************************)
Digits == <<"0", "1", "2", "3", "4", "5", "6", "7", "8", "9">>

IsDigit(b) == \E i \in 1..10 : Digits[i] = b

DigitVal(b) == (CHOOSE i \in 1..10 : Digits[i] = b) - 1

IsSpace(b) == b \in {" ", "\n", "\t", "\r"}

RECURSIVE TrimLeft(_)
TrimLeft(s) == IF s # << >> /\ IsSpace(Head(s)) THEN TrimLeft(Tail(s)) ELSE s

RECURSIVE TrimRight(_)
TrimRight(s) ==
    IF s # << >> /\ IsSpace(s[Len(s)]) THEN TrimRight(SubSeq(s, 1, Len(s) - 1)) ELSE s

RECURSIVE ParseNat(_, _)
ParseNat(s, acc) ==
    IF s = << >> THEN acc ELSE ParseNat(Tail(s), acc * 10 + DigitVal(Head(s)))

\* json.Marshal of a value of the model: its decimal digits
RECURSIVE jsonMarshal(_)
jsonMarshal(v) ==
    IF v < 10 THEN <<Digits[v + 1]>> ELSE jsonMarshal(v \div 10) \o <<Digits[(v % 10) + 1]>>

NoVal == 0 - 1

\* json.Unmarshal and json.Decoder.Decode: the decoded value, or a syntax error
jsonUnmarshal(data) ==
    LET t == TrimRight(TrimLeft(data)) IN
    IF t # << >> /\ (\A i \in 1..Len(t) : IsDigit(t[i])) /\ (Len(t) = 1 \/ t[1] # "0")
    THEN [ok |-> TRUE, val |-> ParseNat(t, 0)]
    ELSE [ok |-> FALSE, val |-> NoVal]

(***************************************************************************)
(* base64.StdEncoding and HTTP Basic authentication.                       *)
(***************************************************************************)
B64 == <<"A", "B", "C", "D", "E", "F", "G", "H", "I", "J", "K", "L", "M", "N", "O", "P",
         "Q", "R", "S", "T", "U", "V", "W", "X", "Y", "Z", "a", "b", "c", "d", "e", "f",
         "g", "h", "i", "j", "k", "l", "m", "n", "o", "p", "q", "r", "s", "t", "u", "v",
         "w", "x", "y", "z", "0", "1", "2", "3", "4", "5", "6", "7", "8", "9", "+", "/">>

\* the code of a byte, for the bytes keys are made of
Ascii(b) ==
    CASE b = ":" -> 58
      [] b = "k" -> 107
      [] b = "1" -> 49
      [] b = "2" -> 50
      [] b = "x" -> 120

\* base64.StdEncoding.EncodeToString
RECURSIVE EncodeToString(_)
EncodeToString(src) ==
    IF src = << >> THEN << >>
    ELSE LET a == Ascii(src[1]) IN
         IF Len(src) = 1
         THEN <<B64[(a \div 4) + 1], B64[((a % 4) * 16) + 1], "=", "=">>
         ELSE LET b == Ascii(src[2]) IN
              IF Len(src) = 2
              THEN <<B64[(a \div 4) + 1], B64[((a % 4) * 16 + (b \div 16)) + 1],
                     B64[((b % 16) * 4) + 1], "=">>
              ELSE LET c == Ascii(src[3]) IN
                   <<B64[(a \div 4) + 1], B64[((a % 4) * 16 + (b \div 16)) + 1],
                     B64[((b % 16) * 4 + (c \div 64)) + 1], B64[(c % 64) + 1]>>
                       \o EncodeToString(SubSeq(src, 4, Len(src)))

Basic == <<"B", "a", "s", "i", "c", " ">>

\* the Authorization value http.Request.SetBasicAuth sets
SetBasicAuth(username, password) == Basic \o EncodeToString(username \o <<":">> \o password)

(***************************************************************************)
(* Errors returned by the client.                                          *)
(***************************************************************************)
MkErr(k, op, u, code, v) == [kind |-> k, Op |-> op, URL |-> u, code |-> code, val |-> v]

NoErr == MkErr("nil", "", "", 0, NoVal)

ErrNotFound == MkErr("ErrNotFound", "", "", 0, NoVal)

ValidationError(v) == MkErr("ValidationError", "", "", 0, v)

DecodeError == MkErr("json", "", "", 0, NoVal)

MarshalError == MkErr("marshal", "", "", 0, NoVal)

RequestError == MkErr("request", "", "", 0, NoVal)

TransportError == MkErr("transport", "", "", 0, NoVal)

StatusError(op, u, code) == MkErr("url.Error", op, u, code, NoVal)

(***************************************************************************)
(* The client.                                                             *)
(***************************************************************************)
\* keys are byte strings
K1 == <<"k", "1">>

Keys == {K1, <<"k">>}

Schemes == {"http", "discoverd+http", "pinned"}

\* NewClient / NewClientWithPin
NewClient(scheme, key) ==
    [url       |-> "http://ctl",
     addr      |-> "ctl",
     key       |-> key,
     dial      |-> CASE scheme = "discoverd+http" -> "discoverd"
                     [] scheme = "pinned" -> "pinned"
                     [] OTHER -> "nil",
     dialClose |-> scheme = "discoverd+http",
     dialer    |-> IF scheme = "discoverd+http" THEN "open" ELSE "none",
     releases  |-> 0,
     closes    |-> 0,
     closeErr  |-> NoErr]

Clients == {NewClient(s, k) : s \in Schemes, k \in Keys}

(***************************************************************************)
(* rawReq                                                                  *)
(***************************************************************************)
Methods == {"GET", "POST", "DELETE"}

Paths == {"/apps", "/%zz"}

\* paths http.NewRequest cannot parse
BadPaths == {"/%zz"}

Statuses == {200, 201, 400, 404, 500}

\* what the caller passes as in: nothing, an io.Reader, a value, a value
\* json.Marshal rejects
InKinds == {"nil", "reader", "value", "unmarshalable"}

NoRes == [StatusCode |-> 0, bodyClosed |-> TRUE, nil |-> TRUE]

NoReq == [Method |-> "", URL |-> "", ContentType |-> "", Accept |-> "", user |-> "", password |-> "",
          auth |-> FALSE, Authorization |-> << >>]

\* the header the caller passes: fields unset are ""
Header(ct, accept) == [ContentType |-> ct, Accept |-> accept, Authorization |-> << >>]

\* a header in which the caller has set Authorization
WithAuthorization(header, value) == [header EXCEPT !.Authorization = value]

NilHeader == Header("", "")

\* the server's answer to one request: a transport failure, or a status and a body
Answer(fail, status, body) == [fail |-> fail, status |-> status, body |-> body]

\* what rawReq returns, with the request it sent and the number of times it sent it
Ret(res, err, v, sent, n) == [res |-> res, err |-> err, out |-> v, req |-> sent, attempts |-> n]

Response(status, closed) == [StatusCode |-> status, bodyClosed |-> closed, nil |-> FALSE]

\* NotFound leaving the body open
NotFound_leak(req, srv) == Ret(Response(srv.status, FALSE), ErrNotFound, NoVal, req, 1)

\* status 404: the body is closed and ErrNotFound returned
NotFound(req, srv) == Ret(Response(srv.status, TRUE), ErrNotFound, NoVal, req, 1)

\* BadRequest dropping the error of the decoder
BadRequest_ignoreErr(req, srv) ==
    Ret(Response(srv.status, TRUE), ValidationError(jsonUnmarshal(srv.body).val), NoVal, req, 1)

\* status 400: the body is decoded as a ValidationError, and closed on return
BadRequest(req, srv) ==
    LET body == jsonUnmarshal(srv.body) IN
    IF ~body.ok THEN Ret(Response(srv.status, TRUE), DecodeError, NoVal, req, 1)
    ELSE Ret(Response(srv.status, TRUE), ValidationError(body.val), NoVal, req, 1)

\* Unexpected reporting the path instead of the request URL
Unexpected_noURL(req, srv) ==
    Ret(Response(srv.status, TRUE), StatusError(req.Method, "", srv.status), NoVal, req, 1)

\* any other status but 200: the body is closed and a url.Error returned
Unexpected(req, srv) ==
    Ret(Response(srv.status, TRUE), StatusError(req.Method, req.URL, srv.status), NoVal, req, 1)

\* status 200: the body is decoded into out and closed, or handed over open
Success(req, srv, out) ==
    LET d == jsonUnmarshal(srv.body) IN
    IF out THEN Ret(Response(srv.status, TRUE), IF d.ok THEN NoErr ELSE DecodeError, d.val, req, 1)
    ELSE Ret(Response(srv.status, FALSE), NoErr, NoVal, req, 1)

\* the request built with the Authorization of the caller's header kept
NewRequest_keepAuth(c, method, path, header) ==
    [Method        |-> method,
     URL           |-> c.url \o path,
     ContentType   |-> IF header.ContentType = "" THEN "application/json" ELSE header.ContentType,
     Accept        |-> header.Accept,
     user          |-> "",
     password      |-> c.key,
     auth          |-> TRUE,
     Authorization |-> IF header.Authorization # << >> THEN header.Authorization
                       ELSE SetBasicAuth(<< >>, c.key)]

\* the request rawReq builds: the caller's header with the default
\* Content-Type, and the Basic credentials set over it
NewRequest(c, method, path, header) ==
    [Method        |-> method,
     URL           |-> c.url \o path,
     ContentType   |-> IF header.ContentType = "" THEN "application/json" ELSE header.ContentType,
     Accept        |-> header.Accept,
     user          |-> "",
     password      |-> c.key,
     auth          |-> TRUE,
     Authorization |-> SetBasicAuth(<< >>, c.key)]

rawReq(c, method, path, header, in, out, srv) ==
    LET req == NewRequest(c, method, path, header)
    IN  IF in = "unmarshalable" THEN Ret(NoRes, MarshalError, NoVal, NoReq, 0)
        ELSE IF path \in BadPaths THEN Ret(NoRes, RequestError, NoVal, NoReq, 0)
        ELSE IF srv.fail THEN Ret(NoRes, TransportError, NoVal, req, 1)
        ELSE IF srv.status = 404 THEN NotFound(req, srv)
        ELSE IF srv.status = 400 THEN BadRequest(req, srv)
        ELSE IF srv.status # 200 THEN Unexpected(req, srv)
        ELSE Success(req, srv, out)

(***************************************************************************)
(* State.                                                                  *)
(***************************************************************************)
VARIABLES
    client,     \* the Client the operations are called on
    call,       \* arguments of the last rawReq execution and the server's answer
    ret,        \* what that execution returned; pending while HTTP.Do blocks
    sse,        \* the lines the server writes on the event stream
    stream,     \* what StreamJobEvents returned: the JobEventStream and the error
    body,       \* stream.body: the bytes on the wire, how many were read, closed or not
    dec,        \* the sseDecoder's bufio.Reader: bytes read and not yet consumed
    pc,         \* where the producer goroutine is
    event,      \* the event the producer has decoded and is sending
    Events,     \* stream.Events, the rendezvous channel
    received,   \* what the consumer has got from stream.Events
    updates,    \* what StreamFormations returned: the FormationUpdates and the error
    conn,       \* FormationUpdates.conn, the connection StreamFormations dialed
    Chan,       \* FormationUpdates.Chan
    rpc,        \* the rpcplus client and its streaming call on conn
    formations, \* what the consumer has got from FormationUpdates.Chan
    attach,     \* the last RunJobAttached call: its arguments and what it returned
    op          \* the last send, get, delete or GetJobLog: what it returned, and the
                \* response as it left it

reqVars == <<call, ret, op>>

esVars == <<sse, stream, body, dec, pc, event, Events, received>>

fsVars == <<updates, conn, Chan, rpc, formations>>

vars == <<client, call, ret, sse, stream, body, dec, pc, event, Events, received,
          updates, conn, Chan, rpc, formations, attach, op>>

NoAnswer == Answer(FALSE, 0, << >>)

NoCall == [method |-> "", path |-> "", header |-> NilHeader, in |-> "nil", out |-> FALSE,
           srv |-> NoAnswer, pending |-> FALSE]

NoOp == [name |-> "none", err |-> NoErr, res |-> NoRes, handed |-> FALSE]

NoRet == [res |-> NoRes, err |-> NoErr, out |-> NoVal, req |-> NoReq, attempts |-> 0]

\* bodies a server sends in a request/response exchange: the JSON encoding of
\* a payload, or bytes that are not JSON
Malformed == {<<"{">>, << >>}

Bodies == {jsonMarshal(v) \o <<"\n">> : v \in 0..MaxVal} \cup Malformed

Answers == {Answer(TRUE, 0, << >>)} \cup {Answer(FALSE, s, b) : s \in Statuses, b \in Bodies}

NilTime == 0 - 1

NoAttach == [state |-> "none", appID |-> "", job |-> "nil", dial |-> "nil", hijack |-> "none",
             rwc |-> FALSE, err |-> NoErr, res |-> NoRes, req |-> NoReq, attempts |-> 0]

\* no formation stream has been asked for
NoUpdates ==
    /\ updates = [handle |-> "none", conn |-> "nil", err |-> NoErr, since |-> NilTime,
                  closes |-> 0, closeErr |-> NoErr, dials |-> 0, errp |-> "err"]
    /\ conn = [state |-> "none", broken |-> FALSE]
    /\ Chan = [closed |-> FALSE, closes |-> 0]
    /\ rpc = [pc |-> "none", method |-> "", arg |-> NilTime, auth |-> << >>, rec |-> NoVal,
              pushed |-> 0, Error |-> NoErr]
    /\ formations = [vals |-> << >>, eof |-> FALSE]

\* no event stream has been asked for
NoStream ==
    /\ stream = [state |-> "none", err |-> NoErr]
    /\ body = [data |-> << >>, rd |-> 0, closed |-> FALSE, broken |-> FALSE]
    /\ dec = << >>
    /\ pc = "none"
    /\ event = NoVal
    /\ Events = [closed |-> FALSE, closes |-> 0]
    /\ received = [vals |-> << >>, eof |-> FALSE]

InitReq ==
    /\ client \in Clients
    /\ call = NoCall
    /\ ret = NoRet
    /\ op = NoOp
    /\ sse = [lines |-> << >>, tail |-> << >>]
    /\ NoStream
    /\ NoUpdates
    /\ attach = NoAttach

\* rawReq is entered: it returns at once when it cannot build the request,
\* otherwise the request is sent and the caller blocks in HTTP.Do
RawReqCall(method, path, header, in, out) ==
    LET r == rawReq(client, method, path, header, in, out, NoAnswer) IN
    /\ ~call.pending
    /\ call' = [method |-> method, path |-> path, header |-> header, in |-> in,
                out |-> out, srv |-> NoAnswer, pending |-> r.attempts > 0]
    /\ ret' = IF r.attempts > 0 THEN NoRet ELSE r
    /\ UNCHANGED <<client, attach, op, esVars, fsVars>>

\* HTTP.Do returns with the server's answer and rawReq runs to its return
RawReqReturn(srv) ==
    /\ call.pending
    /\ call' = [call EXCEPT !.srv = srv, !.pending = FALSE]
    /\ ret' = rawReq(client, call.method, call.path, call.header, call.in, call.out, srv)
    /\ UNCHANGED <<client, attach, op, esVars, fsVars>>

NextReq ==
    \/ \E method \in Methods, path \in Paths, in \in InKinds, out \in BOOLEAN,
          ctype \in {"", "text/plain"}, authz \in {<< >>, <<"x">>} :
            RawReqCall(method, path, WithAuthorization(Header(ctype, ""), authz), in, out)
    \/ \E srv \in Answers : RawReqReturn(srv)

SpecReq == InitReq /\ [][NextReq]_vars

(***************************************************************************)
(* Properties of rawReq.                                                   *)
(***************************************************************************)
\* the last rawReq execution got a response from the server
Responded == ~call.pending /\ ret.attempts > 0 /\ ~call.srv.fail

\* C1: the status code alone decides the outcome of a response: 404 gives
\* ErrNotFound whatever the body, 400 the validation branch (a
\* ValidationError or the error of decoding one), 200 no status error, and
\* every other status a url.Error carrying the method, the URL and the
\* status code; each kind of error comes from one class of status only.
C1_StatusDecidesOutcome ==
    Responded =>
        LET status == call.srv.status IN
        /\ (status = 404) = (ret.err = ErrNotFound)
        /\ (status = 400) => ret.err.kind \in {"ValidationError", "json"}
        /\ (ret.err.kind = "ValidationError") => status = 400
        /\ (status = 200) => ret.err.kind \in {"nil", "json"}
        /\ (ret.err = NoErr) => status = 200
        /\ (status \notin {200, 400, 404}) =
               (ret.err = StatusError(call.method, client.url \o call.path, status))
        /\ ret.err.kind = "url.Error" => status \notin {200, 400, 404}
        /\ ret.err.kind \in {"nil", "ErrNotFound", "ValidationError", "json", "url.Error"}

\* a status other than 200, 400 and 404 was answered with a body that would
\* decode, and the error names method, URL and status
C1_Witness ==
    /\ Responded
    /\ call.srv.status = 500
    /\ jsonUnmarshal(call.srv.body).ok
    /\ ret.err = StatusError("POST", "http://ctl/apps", 500)

\* C6: when rawReq returns with a response, the body is closed unless the
\* status is 200 and no decode target was given; it is open only then.
C6_BodyClosedUnlessHandedOver ==
    Responded => (ret.res.bodyClosed = ~(call.srv.status = 200 /\ ~call.out))

\* a 400 whose body does not decode, and a 200 without decode target
C6_Witness ==
    /\ Responded
    /\ \/ call.srv.status = 400 /\ call.srv.body \in Malformed /\ ret.res.bodyClosed
       \/ call.srv.status = 200 /\ ~call.out /\ ~ret.res.bodyClosed

\* C7: on status 400 a body that is the JSON encoding of v gives the
\* ValidationError v; a malformed body gives the decode error, which is
\* not a ValidationError; neither gives a url.Error or ErrNotFound.
C7_ValidationOrDecodeError ==
    (Responded /\ call.srv.status = 400) =>
        /\ \A v \in 0..MaxVal :
              call.srv.body = jsonMarshal(v) \o <<"\n">> => ret.err = ValidationError(v)
        /\ call.srv.body \in Malformed => ret.err = DecodeError
        /\ ret.err.kind \notin {"url.Error", "ErrNotFound", "nil"}

\* a 400 with the encoding of 1 was returned as ValidationError 1
C7_Witness ==
    /\ Responded
    /\ call.srv.status = 400
    /\ call.srv.body = <<"1", "\n">>
    /\ ret.err = ValidationError(1)

(***************************************************************************)
(* The job event stream: what the server writes.                           *)
(***************************************************************************)
\* most lines in an event stream body
MaxLines == 3

\* the prefix without the space after the colon
Marker_noSpace == <<"d", "a", "t", "a", ":">>

\* the prefix of a data line
Marker == <<"d", "a", "t", "a", ":", " ">>

\* a data line carrying v, a blank separator, a comment, a data field
\* without the space after the colon, a data line whose payload is not JSON
DataLine(v) == [kind |-> "data", val |-> v]

BlankLine == [kind |-> "blank", val |-> NoVal]

CommentLine == [kind |-> "comment", val |-> NoVal]

NoSpaceLine == [kind |-> "nospace", val |-> 1]

BadLine == [kind |-> "bad", val |-> NoVal]

Lines == {DataLine(v) : v \in 0..MaxVal} \cup {BlankLine, CommentLine, NoSpaceLine, BadLine}

\* the bytes of a line, without its terminator
LineBytes(l) ==
    CASE l.kind = "data"    -> <<"d", "a", "t", "a", ":", " ">> \o jsonMarshal(l.val)
      [] l.kind = "blank"   -> << >>
      [] l.kind = "comment" -> <<":", "k">>
      [] l.kind = "nospace" -> <<"d", "a", "t", "a", ":">> \o jsonMarshal(l.val)
      [] l.kind = "bad"     -> <<"d", "a", "t", "a", ":", " ", "{">>

RECURSIVE WireOf(_)
WireOf(ls) == IF ls = << >> THEN << >> ELSE LineBytes(Head(ls)) \o <<"\n">> \o WireOf(Tail(ls))

\* a body: newline-terminated lines, and possibly a last line cut before its newline
Wire(e) == WireOf(e.lines) \o e.tail

Tails == {<< >>, LineBytes(DataLine(1))}

(***************************************************************************)
(* sseDecoder                                                              *)
(***************************************************************************)
HasPrefix(s, prefix) == Len(s) >= Len(prefix) /\ SubSeq(s, 1, Len(prefix)) = prefix

TrimPrefix(s, prefix) == IF HasPrefix(s, prefix) THEN SubSeq(s, Len(prefix) + 1, Len(s)) ELSE s

\* index of the first delim in buf, 0 when there is none
IndexByte(buf, delim) ==
    IF \E i \in 1..Len(buf) : buf[i] = delim
    THEN CHOOSE i \in 1..Len(buf) : buf[i] = delim /\ \A j \in 1..(i - 1) : buf[j] # delim
    ELSE 0

\* Decode unmarshalling every line, data line or not
DecodeLine_noMarker(line) ==
    LET u == jsonUnmarshal(TrimPrefix(line, Marker)) IN
    IF u.ok THEN [kind |-> "event", val |-> u.val] ELSE [kind |-> "error", val |-> NoVal]

\* the body of Decode's loop for a line ReadBytes returned: the decoded
\* value of a data line, a decode error, or nothing for any other line
DecodeLine(line) ==
    IF HasPrefix(line, Marker)
    THEN LET u == jsonUnmarshal(TrimPrefix(line, Marker)) IN
         IF u.ok THEN [kind |-> "event", val |-> u.val] ELSE [kind |-> "error", val |-> NoVal]
    ELSE [kind |-> "skip", val |-> NoVal]

(***************************************************************************)
(* StreamJobEvents and its producer goroutine                              *)
(***************************************************************************)
JobsPath == "/apps/a/jobs"

\* the goroutine returning without the deferred close
ProducerReturn_noClose ==
    /\ pc' = "done"
    /\ UNCHANGED Events

\* the deferred close(stream.Events) when the goroutine returns
ProducerReturn ==
    /\ pc' = "done"
    /\ Events' = [closed |-> TRUE, closes |-> Events.closes + 1]

\* StreamJobEvents: one rawReq without decode target; on success the
\* goroutine is started on the open body
StreamJobEvents(srv) ==
    LET r == rawReq(client, "GET", JobsPath, Header("", "text/event-stream"), "nil", FALSE, srv) IN
    /\ stream.state = "none"
    /\ ~call.pending
    /\ call' = [method |-> "GET", path |-> JobsPath, header |-> Header("", "text/event-stream"),
                in |-> "nil", out |-> FALSE, srv |-> srv, pending |-> FALSE]
    /\ ret' = r
    /\ IF r.err # NoErr
       THEN /\ stream' = [state |-> "nil", err |-> r.err]
            /\ UNCHANGED <<body, pc>>
       ELSE /\ stream' = [state |-> "open", err |-> NoErr]
            /\ body' = [data |-> srv.body, rd |-> 0, closed |-> FALSE, broken |-> FALSE]
            /\ pc' = "read"
    /\ UNCHANGED <<client, attach, op, fsVars, sse, dec, event, Events, received>>

\* dec.ReadBytes finds no newline in its buffer and reads the body: it gets
\* n more bytes, or the read fails and Decode returns the error
ReadBody(n) ==
    /\ pc = "read"
    /\ IndexByte(dec, "\n") = 0
    /\ ~body.closed
    /\ n \in 1..(Len(body.data) - body.rd)
    /\ dec' = dec \o SubSeq(body.data, body.rd + 1, body.rd + n)
    /\ body' = [body EXCEPT !.rd = body.rd + n]
    /\ UNCHANGED <<client, attach, fsVars, reqVars, sse, stream, pc, event, Events, received>>

\* the read returns io.EOF at the end of the body, or an error because the
\* body was closed; ReadBytes returns it and the goroutine returns
ReadError ==
    /\ pc = "read"
    /\ IndexByte(dec, "\n") = 0
    /\ body.closed \/ body.rd = Len(body.data)
    /\ ProducerReturn
    /\ UNCHANGED <<client, attach, fsVars, reqVars, sse, stream, body, dec, event, received>>

\* the connection breaks under the read
ConnError ==
    /\ pc = "read"
    /\ IndexByte(dec, "\n") = 0
    /\ ~body.closed
    /\ body' = [body EXCEPT !.broken = TRUE]
    /\ ProducerReturn
    /\ UNCHANGED <<client, attach, fsVars, reqVars, sse, stream, dec, event, received>>

\* Decode going on to the next line after a data line that does not decode
Decode_skipError ==
    /\ pc = "read"
    /\ IndexByte(dec, "\n") > 0
    /\ LET i == IndexByte(dec, "\n")
           d == DecodeLine(SubSeq(dec, 1, i))
       IN  /\ dec' = SubSeq(dec, i + 1, Len(dec))
           /\ CASE d.kind = "event" -> pc' = "send" /\ event' = d.val /\ UNCHANGED Events
                [] OTHER -> UNCHANGED <<pc, event, Events>>
    /\ UNCHANGED <<client, attach, fsVars, reqVars, sse, stream, body, received>>

\* dec.ReadBytes returns a buffered line and Decode handles it
Decode ==
    /\ pc = "read"
    /\ IndexByte(dec, "\n") > 0
    /\ LET i == IndexByte(dec, "\n")
           d == DecodeLine(SubSeq(dec, 1, i))
       IN  /\ dec' = SubSeq(dec, i + 1, Len(dec))
           /\ CASE d.kind = "event" -> pc' = "send" /\ event' = d.val /\ UNCHANGED Events
                [] d.kind = "error" -> ProducerReturn /\ UNCHANGED event
                [] OTHER -> UNCHANGED <<pc, event, Events>>
    /\ UNCHANGED <<client, attach, fsVars, reqVars, sse, stream, body, received>>

\* stream.Events <- event meets a receive of the consumer
Receive ==
    /\ pc = "send"
    /\ received' = [received EXCEPT !.vals = Append(received.vals, event)]
    /\ event' = NoVal
    /\ pc' = "read"
    /\ UNCHANGED <<client, attach, fsVars, reqVars, sse, stream, body, dec, Events>>

\* a receive on the closed channel
ReceiveClosed ==
    /\ Events.closed
    /\ ~received.eof
    /\ received' = [received EXCEPT !.eof = TRUE]
    /\ UNCHANGED <<client, attach, fsVars, reqVars, sse, stream, body, dec, pc, event, Events>>

\* Close closing the connection of the formation stream as well
Close_closesConn ==
    /\ stream.state = "open"
    /\ body' = [body EXCEPT !.closed = TRUE]
    /\ conn' = [conn EXCEPT !.state = IF @ = "open" THEN "closed" ELSE @]
    /\ UNCHANGED <<client, attach, reqVars, sse, stream, dec, pc, event, Events, received,
                   updates, Chan, rpc, formations>>

\* JobEventStream.Close
Close ==
    /\ stream.state = "open"
    /\ body' = [body EXCEPT !.closed = TRUE]
    /\ UNCHANGED <<client, attach, fsVars, reqVars, sse, stream, dec, pc, event, Events, received>>

\* the server's answers to the stream request: a failure, an error status,
\* or 200 with the event stream as body
EventAnswers ==
    {Answer(TRUE, 0, << >>), Answer(FALSE, 200, Wire(sse))}
        \cup {Answer(FALSE, s, <<"0">>) : s \in Statuses \ {200}}

SSE(maxLines) ==
    {[lines |-> l, tail |-> t] : l \in UNION {[1..n -> Lines] : n \in 0..maxLines}, t \in Tails}

InitEvents ==
    /\ client \in Clients
    /\ call = NoCall
    /\ ret = NoRet
    /\ op = NoOp
    /\ sse \in SSE(MaxLines)
    /\ NoStream
    /\ NoUpdates
    /\ attach = NoAttach

Producer == (\E n \in 1..(Len(body.data) - body.rd) : ReadBody(n)) \/ ReadError \/ Decode

NextEvents ==
    \/ \E srv \in EventAnswers : StreamJobEvents(srv)
    \/ \E n \in 1..(Len(body.data) - body.rd) : ReadBody(n)
    \/ ReadError
    \/ ConnError
    \/ Decode
    \/ Receive
    \/ ReceiveClosed
    \/ Close

SpecEvents == InitEvents /\ [][NextEvents]_vars

\* most lines in a body of the specifications with fairness
MaxLiveLines == 3

\* bodies of newline-terminated lines whose data lines carry JSON
LiveSSE ==
    {[lines |-> l, tail |-> << >>] :
        l \in UNION {[1..n -> Lines \ {BadLine, CommentLine}] : n \in 0..MaxLiveLines}}

InitLive ==
    /\ client = NewClient("http", K1)
    /\ call = NoCall
    /\ ret = NoRet
    /\ op = NoOp
    /\ sse \in LiveSSE
    /\ NoStream
    /\ NoUpdates
    /\ attach = NoAttach

\* the goroutine is scheduled as long as it can take a step of its own;
\* nothing makes the consumer receive
FairEvents == InitLive /\ [][NextEvents]_vars /\ WF_vars(Producer)

\* the same with a consumer that keeps receiving
LiveEvents == FairEvents /\ WF_vars(Receive) /\ WF_vars(ReceiveClosed)

(***************************************************************************)
(* Properties of the event stream.                                         *)
(***************************************************************************)
IsPrefix(a, b) == Len(a) <= Len(b) /\ SubSeq(b, 1, Len(a)) = a

\* the payloads of the data lines, in the order of the lines
RECURSIVE Payloads(_)
Payloads(ls) ==
    IF ls = << >> THEN << >>
    ELSE IF Head(ls).kind = "data" THEN <<Head(ls).val>> \o Payloads(Tail(ls))
    ELSE Payloads(Tail(ls))

\* every line ends with a newline and every data line carries JSON
WellFormedBody == sse.tail = << >> /\ \A i \in 1..Len(sse.lines) : sse.lines[i].kind # "bad"

\* C2: once Close was called on an open stream, the producer terminates
\* and stream.Events is closed eventually, whatever the consumer does.
C2_CloseTerminatesProducer == (stream.state = "open" /\ body.closed) ~> Events.closed

\* C3: after Close has returned no value is delivered on stream.Events.
C3_NoDeliveryAfterClose == [][body.closed => received'.vals = received.vals]_vars

\* C5: on a body of newline-terminated lines whose data lines carry JSON, a
\* consumer that keeps receiving gets a prefix of the payloads of the data
\* lines at any time, sees the channel closed eventually, and has then got
\* exactly those payloads, in order, if the body was read to its end.
C5_OneValuePerDataLine ==
    /\ [](WellFormedBody => IsPrefix(received.vals, Payloads(sse.lines)))
    /\ []((WellFormedBody /\ received.eof /\ ~body.closed /\ ~body.broken)
            => received.vals = Payloads(sse.lines))
    /\ (WellFormedBody /\ stream.state = "open") ~> received.eof

\* two data lines around a line without data were delivered as two values,
\* and the channel was seen closed at the end of the body
C5_Witness ==
    /\ \E i \in 1..Len(sse.lines) : sse.lines[i].kind \notin {"data", "bad"}
    /\ Len(Payloads(sse.lines)) = 2
    /\ received = [vals |-> Payloads(sse.lines), eof |-> TRUE]
    /\ received.vals[1] # received.vals[2]
    /\ ~body.closed /\ ~body.broken

(***************************************************************************)
(* StreamFormations, FormationUpdates and the rpcplus streaming call       *)
(***************************************************************************)
\* largest cursor time a caller passes (times are Unix seconds 0..MaxTime)
MaxTime == 1

\* most records the server pushes on one formation stream
MaxPush == 1

\* most calls of FormationUpdates.Close
MaxCloses == 2

\* time.Unix(0, 0)
Epoch == 0

DialError == MkErr("dial", "", "", 0, NoVal)

HandshakeError == MkErr("rpc", "", "", 0, NoVal)

ConnClosedError == MkErr("closed", "", "", 0, NoVal)

Handle(c, err, since) ==
    [handle |-> "FormationUpdates", conn |-> c, err |-> err, since |-> since,
     closes |-> 0, closeErr |-> NoErr, dials |-> 1, errp |-> "err"]

\* the cursor passed on as the caller gave it
Since_asGiven(since) == since

\* the cursor sent when the caller passes none
Since(since) == IF since = NilTime THEN Epoch ELSE since

\* the dial failure returned without closing the channel
DialFailed_noClose(since) ==
    /\ updates' = Handle("nil", DialError, since)
    /\ UNCHANGED <<conn, rpc, Chan>>

\* dial failed: the channel is closed, the handle holds the nil connection
DialFailed(since) ==
    /\ Chan' = [closed |-> TRUE, closes |-> Chan.closes + 1]
    /\ updates' = Handle("nil", DialError, since)
    /\ UNCHANGED <<conn, rpc>>

\* the handshake failing with the channel left open
HandshakeFailed_noClose(since) ==
    /\ conn' = [state |-> "open", broken |-> FALSE]
    /\ updates' = Handle("conn", HandshakeError, since)
    /\ rpc' = [rpc EXCEPT !.auth = Basic \o EncodeToString(<<":">> \o client.key)]
    /\ UNCHANGED Chan

\* rpcplus.NewHTTPClient failed on the dialed connection
HandshakeFailed(since) ==
    /\ conn' = [state |-> "open", broken |-> FALSE]
    /\ Chan' = [closed |-> TRUE, closes |-> Chan.closes + 1]
    /\ updates' = Handle("conn", HandshakeError, since)
    /\ rpc' = [rpc EXCEPT !.auth = Basic \o EncodeToString(<<":">> \o client.key)]

\* client.StreamGo("Controller.StreamFormations", since, ch) on the session
StreamGo(since) ==
    /\ conn' = [state |-> "open", broken |-> FALSE]
    /\ updates' = [Handle("conn", NoErr, since) EXCEPT !.errp = "call.Error"]
    /\ rpc' = [rpc EXCEPT !.pc = "recv", !.method = "Controller.StreamFormations",
                          !.arg = Since(since), !.auth = Basic \o EncodeToString(<<":">> \o client.key)]
    /\ UNCHANGED Chan

StreamFormations(since, dialed, shaken) ==
    /\ updates.handle = "none"
    /\ IF ~dialed THEN DialFailed(since)
       ELSE IF ~shaken THEN HandshakeFailed(since)
       ELSE StreamGo(since)
    /\ UNCHANGED <<client, attach, reqVars, esVars, formations>>

\* Close leaving the connection as it is
FormationUpdatesClose_keepConn ==
    /\ updates.handle = "FormationUpdates"
    /\ updates.closes < MaxCloses
    /\ updates' = [updates EXCEPT !.closes = @ + 1, !.closeErr = NoErr]
    /\ UNCHANGED <<client, attach, reqVars, esVars, conn, Chan, rpc, formations>>

\* FormationUpdates.Close
FormationUpdatesClose ==
    /\ updates.handle = "FormationUpdates"
    /\ updates.closes < MaxCloses
    /\ IF updates.conn = "nil"
       THEN /\ updates' = [updates EXCEPT !.closes = @ + 1, !.closeErr = NoErr]
            /\ UNCHANGED conn
       ELSE /\ updates' = [updates EXCEPT !.closes = @ + 1,
                              !.closeErr = IF conn.state = "closed" THEN ConnClosedError ELSE NoErr]
            /\ conn' = [conn EXCEPT !.state = "closed"]
    /\ UNCHANGED <<client, attach, reqVars, esVars, Chan, rpc, formations>>

\* the rpcplus client reads a record the server pushed and goes to send it
\* on the channel
StreamRecord(v) ==
    /\ rpc.pc = "recv"
    /\ conn.state = "open" /\ ~conn.broken
    /\ rpc.pushed < MaxPush
    /\ rpc' = [rpc EXCEPT !.pc = "send", !.rec = v, !.pushed = @ + 1]
    /\ UNCHANGED <<client, attach, reqVars, esVars, updates, conn, Chan, formations>>

\* the send on the channel meets a receive of the consumer
ReceiveFormation ==
    /\ rpc.pc = "send"
    /\ formations' = [formations EXCEPT !.vals = Append(formations.vals, rpc.rec)]
    /\ rpc' = [rpc EXCEPT !.pc = "recv", !.rec = NoVal]
    /\ UNCHANGED <<client, attach, reqVars, esVars, updates, conn, Chan>>

\* a receive on the closed channel
ReceiveFormationClosed ==
    /\ Chan.closed
    /\ ~formations.eof
    /\ formations' = [formations EXCEPT !.eof = TRUE]
    /\ UNCHANGED <<client, attach, reqVars, esVars, updates, conn, Chan, rpc>>

\* the peer closes the connection, or it breaks
ConnBroken ==
    /\ conn.state = "open" /\ ~conn.broken
    /\ conn' = [conn EXCEPT !.broken = TRUE]
    /\ UNCHANGED <<client, attach, reqVars, esVars, updates, Chan, rpc, formations>>

\* the read of the rpcplus client fails on the closed or broken connection:
\* the call ends with an error and the channel is closed
StreamEnd ==
    /\ rpc.pc = "recv"
    /\ conn.state = "closed" \/ conn.broken
    /\ rpc' = [rpc EXCEPT !.pc = "done", !.Error = ConnClosedError]
    /\ Chan' = [closed |-> TRUE, closes |-> Chan.closes + 1]
    /\ UNCHANGED <<client, attach, reqVars, esVars, updates, conn, formations>>

Times == {NilTime} \cup 0..MaxTime

NextFormations ==
    \/ \E since \in Times, dialed \in BOOLEAN, shaken \in BOOLEAN :
          StreamFormations(since, dialed, shaken)
    \/ FormationUpdatesClose
    \/ \E v \in 0..MaxVal : StreamRecord(v)
    \/ ReceiveFormation
    \/ ReceiveFormationClosed
    \/ ConnBroken
    \/ StreamEnd

SpecFormations == InitReq /\ [][NextFormations]_vars

(***************************************************************************)
(* Properties of the formation stream.                                     *)
(***************************************************************************)
\* C8: when the dial of StreamFormations fails, a FormationUpdates is
\* returned with an error, its channel is closed and delivers no record, and
\* every Close on it returns nil and touches no connection.
C8_HandleOnDialFailure ==
    (updates.handle # "none" /\ updates.err = DialError) =>
        /\ updates.handle = "FormationUpdates"
        /\ updates.conn = "nil"
        /\ Chan.closed
        /\ rpc.pc = "none"
        /\ formations.vals = << >>
        /\ conn.state = "none"
        /\ updates.closeErr = NoErr

\* after a failed dial the handle was closed twice and the channel seen closed
C8_Witness ==
    /\ updates.handle = "FormationUpdates"
    /\ updates.err = DialError
    /\ updates.closes = 2
    /\ formations.eof

\* C10: the argument of the streaming call is the cursor time the caller
\* passed, and the epoch when the caller passed nil.
C10_CursorPassed ==
    rpc.pc # "none" =>
        /\ rpc.method = "Controller.StreamFormations"
        /\ \A t \in 0..MaxTime : updates.since = t => rpc.arg = t
        /\ updates.since = NilTime => rpc.arg = 0

\* a stream was started with cursor 1
C10_Witness == rpc.pc = "recv" /\ updates.since = 1 /\ rpc.arg = 1

\* a stream was started without cursor
C10_WitnessNil == rpc.pc = "recv" /\ updates.since = NilTime /\ rpc.arg = 0

\* most lines in an event stream body that runs beside a formation stream
MaxPairLines == 1

InitStreams ==
    /\ client = NewClient("discoverd+http", K1)
    /\ call = NoCall
    /\ ret = NoRet
    /\ op = NoOp
    /\ sse \in SSE(MaxPairLines)
    /\ NoStream
    /\ NoUpdates
    /\ attach = NoAttach

NextStreams == NextEvents \/ NextFormations

\* an event stream and a formation stream of one client, side by side
SpecStreams == InitStreams /\ [][NextStreams]_vars

(***************************************************************************)
(* Properties of both streams.                                             *)
(***************************************************************************)
\* the producer of the event stream is running
Producing == pc \in {"read", "send"}

\* the producer of the formation stream is running
Streaming == rpc.pc \in {"recv", "send"}

\* the producer's next read of the body ends the stream by itself: end of
\* the body, or a data line that does not decode
BodyEnds ==
    LET i == IndexByte(dec, "\n") IN
    IF i = 0 THEN body.rd = Len(body.data)
    ELSE DecodeLine(SubSeq(dec, 1, i)).kind = "error"

\* C4: the channel of a returned stream handle is closed exactly when no
\* producer runs for it (it ended, or the opening failed and none was
\* started); the channel is closed at most once and nothing is in flight
\* to a closed channel; and a running producer terminates before the end of
\* its input only by a connection error or after Close on the handle.
C4_ChannelFollowsProducer ==
    /\ [](stream.state = "open" => (Events.closed = ~Producing))
    /\ [](updates.handle # "none" => (Chan.closed = ~Streaming))
    /\ [](Events.closes <= 1 /\ Chan.closes <= 1)
    /\ [](Events.closed => event = NoVal)
    /\ [](Chan.closed => rpc.rec = NoVal)
    /\ [][(Producing /\ ~Producing') => (body.closed \/ body'.broken \/ BodyEnds)]_vars
    /\ [][(Streaming /\ ~Streaming') => (conn.state = "closed" \/ conn.broken)]_vars
    /\ [][Events.closed => (Events' = Events /\ received'.vals = received.vals)]_vars
    /\ [][Chan.closed => (Chan' = Chan /\ formations'.vals = formations.vals)]_vars

\* Close ended the producer of the event stream before the end of the body,
\* and Close ended the formation stream
C4_Witness ==
    /\ stream.state = "open" /\ body.closed /\ ~body.broken /\ body.rd < Len(body.data)
    /\ Events.closed /\ pc = "done"
    /\ received.vals # << >>
    /\ updates.handle # "none" /\ conn.state = "closed" /\ ~conn.broken
    /\ Chan.closed /\ rpc.pc = "done"

(***************************************************************************)
(* RunJobAttached                                                          *)
(***************************************************************************)
AppIDs == {"a", "b", "%zz"}

\* app ids with which http.NewRequest cannot parse the URL
BadAppIDs == {"%zz"}

\* the ct.NewJob passed: two jobs, and one json.Marshal rejects
Jobs == {"job1", "job2", "unmarshalable"}

\* what utils.HijackRequest meets: the dial fails, the server answers with a
\* status other than 200, the exchange breaks the protocol before or after
\* a response was read, or the connection is handed over
Hijacks == {"dial", "status", "protocol", "protocol-response", "ok"}

AttachError == MkErr("attach", "", "", 0, NoVal)

\* utils.HijackRequest(req, dial): the response, the stream and the error
HijackRequest(how) ==
    CASE how = "dial"     -> [res |-> NoRes, rwc |-> FALSE, err |-> DialError]
      [] how = "status"   -> [res |-> Response(500, FALSE), rwc |-> FALSE, err |-> AttachError]
      [] how = "protocol" -> [res |-> NoRes, rwc |-> FALSE, err |-> AttachError]
      [] how = "protocol-response" ->
                             [res |-> Response(200, FALSE), rwc |-> FALSE, err |-> AttachError]
      [] OTHER            -> [res |-> Response(200, FALSE), rwc |-> TRUE, err |-> NoErr]

\* RunJobAttached; state "panic" is a nil pointer dereference
RunJobAttached(appID, job, how) ==
    LET req == [Method |-> "POST", URL |-> client.url \o "/apps/" \o appID \o "/jobs",
                ContentType |-> "application/json", Accept |-> "application/vnd.flynn.attach",
                user |-> "", password |-> client.key, auth |-> TRUE,
                Authorization |-> SetBasicAuth(<< >>, client.key)]
        dial == IF client.dial # "nil" THEN client.dial ELSE "nil"
        h == HijackRequest(how)
        in == [NoAttach EXCEPT !.appID = appID, !.job = job]
        hijacked == [in EXCEPT !.dial = dial, !.hijack = how, !.req = req, !.attempts = 1]
    IN  /\ attach.state \in {"none", "returned"}
        /\ attach' =
             IF job = "unmarshalable"
             THEN [in EXCEPT !.state = "returned", !.err = MarshalError]
             ELSE IF appID \in BadAppIDs
             THEN [in EXCEPT !.state = "panic"]
             ELSE IF h.err # NoErr
             THEN IF h.res.nil
                  THEN [hijacked EXCEPT !.state = "panic"]
                  ELSE [hijacked EXCEPT !.state = "returned", !.err = h.err,
                                        !.res = [h.res EXCEPT !.bodyClosed = TRUE]]
             ELSE [hijacked EXCEPT !.state = "returned", !.rwc = h.rwc, !.res = h.res]
        /\ UNCHANGED <<client, reqVars, esVars, fsVars>>

NextAttach ==
    \E appID \in AppIDs, job \in Jobs, how \in Hijacks : RunJobAttached(appID, job, how)

SpecAttach == InitReq /\ [][NextAttach]_vars

(***************************************************************************)
(* Properties of RunJobAttached.                                           *)
(***************************************************************************)
\* C9: when the attach fails (dial failure, status other than 200,
\* protocol violation), RunJobAttached returns an error and no stream,
\* without crashing, and has closed the body of a response it received.
C9_AttachFailureReturnsError ==
    (attach.state # "none" /\ attach.hijack \in {"dial", "status", "protocol", "protocol-response"}) =>
        /\ attach.state = "returned"
        /\ attach.err # NoErr
        /\ ~attach.rwc
        /\ ~attach.res.nil => attach.res.bodyClosed


(***************************************************************************)
(* The operations built on rawReq: send, put, post, get, delete and the    *)
(* public operations calling them.  Each returns an error to its caller;   *)
(* res is the response as the operation leaves it when it returns.         *)
(***************************************************************************)
ReleasePath == "/apps/a/release"

LogPath == "/apps/a/jobs/job1/log"

\* send drops the response rawReq returned and returns its error
send(c, method, path, in, out, srv) ==
    LET r == rawReq(c, method, path, NilHeader, in, out, srv) IN
    [err |-> r.err, res |-> r.res, handed |-> FALSE]

put(c, path, in, out, srv) == send(c, "PUT", path, in, out, srv)

post(c, path, in, out, srv) == send(c, "POST", path, in, out, srv)

get(c, path, out, srv) ==
    LET r == rawReq(c, "GET", path, NilHeader, "nil", out, srv) IN
    [err |-> r.err, res |-> r.res, handed |-> FALSE]

\* delete closes the body of the response when rawReq returned no error
delete(c, path, srv) ==
    LET r == rawReq(c, "DELETE", path, NilHeader, "nil", FALSE, srv) IN
    [err |-> r.err,
     res |-> IF r.err = NoErr THEN [r.res EXCEPT !.bodyClosed = TRUE] ELSE r.res,
     handed |-> FALSE]

\* SetAppRelease puts a release and passes no decode target
SetAppRelease(c, srv) == put(c, ReleasePath, "value", FALSE, srv)

\* GetJobLog returns the open body to its caller
GetJobLog(c, srv) ==
    LET r == rawReq(c, "GET", LogPath, NilHeader, "nil", FALSE, srv) IN
    [err |-> r.err, res |-> r.res, handed |-> r.err = NoErr]

\* an operation runs from its call to its return
Operation(name, o, method, path, in, out, srv) ==
    /\ ~call.pending
    /\ call' = [method |-> method, path |-> path, header |-> NilHeader, in |-> in,
                out |-> out, srv |-> srv, pending |-> FALSE]
    /\ ret' = rawReq(client, method, path, NilHeader, in, out, srv)
    /\ op' = [name |-> name, err |-> o.err, res |-> o.res, handed |-> o.handed]
    /\ UNCHANGED <<client, attach, esVars, fsVars>>

Put(path, in, srv) == Operation("put", put(client, path, in, TRUE, srv), "PUT", path, in, TRUE, srv)

Post(path, in, srv) ==
    Operation("post", post(client, path, in, TRUE, srv), "POST", path, in, TRUE, srv)

Get(path, srv) == Operation("get", get(client, path, TRUE, srv), "GET", path, "nil", TRUE, srv)

Delete(path, srv) ==
    Operation("delete", delete(client, path, srv), "DELETE", path, "nil", FALSE, srv)

SetRelease(srv) ==
    Operation("SetAppRelease", SetAppRelease(client, srv), "PUT", ReleasePath, "value", FALSE, srv)

GetLog(srv) == Operation("GetJobLog", GetJobLog(client, srv), "GET", LogPath, "nil", FALSE, srv)

NextOps ==
    \/ \E path \in Paths, in \in {"value", "unmarshalable"}, srv \in Answers : Put(path, in, srv)
    \/ \E path \in Paths, in \in {"value", "unmarshalable"}, srv \in Answers : Post(path, in, srv)
    \/ \E path \in Paths, srv \in Answers : Get(path, srv)
    \/ \E path \in Paths, srv \in Answers : Delete(path, srv)
    \/ \E srv \in Answers : SetRelease(srv)
    \/ \E srv \in Answers : GetLog(srv)

SpecOps == InitReq /\ [][NextOps]_vars

\* C13: an operation built on rawReq that does not return the body to its
\* caller has closed the body of the response it got when it returns,
\* whatever the status; so do delete and a put without decode target
\* (SetAppRelease) on status 200.
C13_BodyClosedAtReturn ==
    (op.name # "none" /\ ~op.handed /\ ~op.res.nil) => op.res.bodyClosed

(***************************************************************************)
(* One client and all its operations.  The operations share no state but   *)
(* the client, which none of them changes, so a behaviour of SpecClient    *)
(* runs the operations of one kind.                                        *)
(***************************************************************************)
InitClient ==
    /\ client \in Clients
    /\ call = NoCall
    /\ ret = NoRet
    /\ op = NoOp
    /\ sse = [lines |-> <<DataLine(1)>>, tail |-> << >>]
    /\ NoStream
    /\ NoUpdates
    /\ attach = NoAttach

NextClient ==
    \/ stream.state = "none" /\ updates.handle = "none" /\ attach.state = "none" /\ op = NoOp
         /\ NextReq
    \/ stream.state = "none" /\ updates.handle = "none" /\ attach.state = "none"
         /\ (call = NoCall \/ op # NoOp) /\ NextOps
    \/ updates.handle = "none" /\ attach.state = "none" /\ op = NoOp
         /\ (call = NoCall \/ stream.state # "none") /\ NextEvents
    \/ stream.state = "none" /\ attach.state = "none" /\ call = NoCall /\ NextFormations
    \/ stream.state = "none" /\ updates.handle = "none" /\ call = NoCall /\ NextAttach

SpecClient == InitClient /\ [][NextClient]_vars

\* a request execution, the opening of a stream and an attach make at most
\* one attempt, and a request execution and the opening of a stream return
\* the failure of that attempt
OneAttempt ==
    /\ ret.attempts <= 1
    /\ (~call.pending /\ ret.attempts = 1 /\ call.srv.fail) =>
            (ret.err = TransportError /\ ret.res = NoRes)
    /\ (stream.state # "none" /\ call.srv.fail) => (stream.state = "nil" /\ stream.err = TransportError)
    /\ updates.dials <= 1
    /\ (updates.handle # "none" /\ updates.conn = "nil") => updates.err = DialError
    /\ attach.attempts <= 1

\* C11: no operation retries.  A request execution, the opening of an event
\* stream, an attach and the opening of a formation stream each make at most
\* one request or connection attempt, and when that attempt fails in the
\* transport or the dial the failure is returned to the caller.
C11_OneAttemptFailureReturned ==
    /\ OneAttempt
    /\ (attach.state # "none" /\ attach.hijack = "dial" /\ attach.attempts = 1) =>
            (attach.state = "returned" /\ attach.err = DialError)

\* the Authorization value of HTTP Basic with an empty user name and the key
\* of the client as password
Credentials ==
    CASE client.key = <<"k", "1">> -> <<"B", "a", "s", "i", "c", " ", "O", "m", "s", "x">>
      [] client.key = <<"k">> -> <<"B", "a", "s", "i", "c", " ", "O", "m", "s", "=">>

\* C12: every request the client sends carries HTTP Basic credentials with an
\* empty user name and the key of the client as password: a rawReq request,
\* also when the caller's header had an Authorization of its own, the attach
\* request, and the handshake of the formation stream.
C12_BasicCredentials ==
    /\ ret.req # NoReq => ret.req.Authorization = Credentials
    /\ attach.req # NoReq => attach.req.Authorization = Credentials
    /\ rpc.auth # << >> => rpc.auth = Credentials

C12_Witness ==
    /\ call.header.Authorization = <<"x">>
    /\ ret.attempts = 1
    /\ ret.req.Authorization = Credentials
    /\ client.key = <<"k">>

C12_WitnessAttach == attach.attempts = 1 /\ attach.req.Authorization = Credentials

C12_WitnessHandshake == updates.conn = "conn" /\ rpc.auth = Credentials

(***************************************************************************)
(* Failures after the opening of a stream.                                 *)
(***************************************************************************)
\* the error read through the pointer StreamFormations returned: the error
\* of the opening, or the Error field of the streaming call
StreamError == IF updates.errp = "call.Error" THEN rpc.Error ELSE updates.err

\* no error value is delivered on a channel: every value is a decoded payload
OnlyPayloads ==
    /\ \A i \in DOMAIN received.vals : received.vals[i] \in 0..MaxVal
    /\ \A i \in DOMAIN formations.vals : formations.vals[i] \in 0..MaxVal

RECURSIVE BeforeBad(_)
BeforeBad(ls) ==
    IF ls = << >> \/ Head(ls).kind = "bad" THEN << >>
    ELSE <<Head(ls)>> \o BeforeBad(Tail(ls))

HasBad == \E i \in DOMAIN sse.lines : sse.lines[i].kind = "bad"

\* the bytes of the body the decoder has taken out of its buffer
Consumed == body.rd - Len(dec)

\* the bytes up to the end of the first data line that does not decode
UpToBad == Len(WireOf(BeforeBad(sse.lines))) + Len(LineBytes(BadLine)) + 1

\* C15: the first data line that does not decode, or the first read error,
\* terminates the producer and closes the channel; the values of the data
\* lines before it are delivered in order, and no value of a later line is
\* ever delivered.
C15_FirstFailureEndsStream ==
    /\ IsPrefix(received.vals, Payloads(BeforeBad(sse.lines)))
    /\ (received.eof /\ ~body.closed /\ ~body.broken) =>
            received.vals = Payloads(BeforeBad(sse.lines))
    /\ body.broken => (pc = "done" /\ Events.closed)
    /\ (stream.state = "open" /\ HasBad /\ Consumed >= UpToBad) => (pc = "done" /\ Events.closed)

\* a value, then a line that does not decode, then a data line: the consumer
\* got the first value and then the closed channel
C15_Witness ==
    /\ sse.lines = <<DataLine(0), BadLine, DataLine(1)>>
    /\ received = [vals |-> <<0>>, eof |-> TRUE]
    /\ ~body.closed /\ ~body.broken
    /\ pc = "done"

\* a read error after the first value
C15_WitnessReadError ==
    /\ sse.lines = <<DataLine(0), DataLine(1)>>
    /\ received = [vals |-> <<0>>, eof |-> TRUE]
    /\ body.broken

\* C19: a value is delivered only for a complete line that begins with the
\* bytes "data: " and ends with a newline.  A line beginning with "data:"
\* without the space is skipped, and a last data line without its newline is
\* dropped at the end of the body, after which the channel is closed.
C19_OnlyCompleteDataLines ==
    /\ IsPrefix(received.vals \o (IF pc = "send" THEN <<event>> ELSE << >>), Payloads(sse.lines))
    /\ (pc = "done" /\ ~body.closed /\ ~body.broken /\ ~HasBad) =>
            (dec = sse.tail /\ Events.closed)
    /\ (received.eof /\ ~body.closed /\ ~body.broken /\ ~HasBad) =>
            received.vals = Payloads(sse.lines)

\* "data:1" was skipped, "data: 0" delivered, and the last line "data: 1"
\* without newline dropped
C19_Witness ==
    /\ sse = [lines |-> <<NoSpaceLine, DataLine(0)>>, tail |-> LineBytes(DataLine(1))]
    /\ received = [vals |-> <<0>>, eof |-> TRUE]
    /\ ~body.closed /\ ~body.broken
    /\ dec = sse.tail

C16_WitnessOther ==
    /\ conn.state = "closed" /\ Chan.closed
    /\ ~body.closed /\ ~body.broken
    /\ received = [vals |-> <<1>>, eof |-> TRUE]

C17_WitnessOpen == updates.err = HandshakeError /\ updates.closes = 0 /\ conn.state = "open"

(***************************************************************************)
(* Client.Close.                                                           *)
(***************************************************************************)
\* most calls of Client.Close on a client
MaxClientCloses == 2

ReleaseError == MkErr("discoverd", "", "", 0, NoVal)

\* Close of the discovery dialer: the registry watch is released, or the
\* release fails and returns an error
DialerClose(fails) ==
    [dialer |-> IF fails THEN client.dialer ELSE "closed",
     err    |-> IF fails THEN ReleaseError ELSE NoErr]

\* Client.Close returning the error of the release
ClientClose_returnsErr(fails) ==
    /\ client.closes < MaxClientCloses
    /\ client' = IF client.dialClose
                 THEN [client EXCEPT !.closes = @ + 1, !.releases = @ + 1,
                                     !.dialer = DialerClose(fails).dialer,
                                     !.closeErr = DialerClose(fails).err]
                 ELSE [client EXCEPT !.closes = @ + 1, !.closeErr = NoErr]
    /\ UNCHANGED <<attach, reqVars, esVars, fsVars>>

\* Client.Close: the dialer is closed when the client has one, its error is
\* dropped and nil returned
ClientClose(fails) ==
    /\ client.closes < MaxClientCloses
    /\ client' = IF client.dialClose
                 THEN [client EXCEPT !.closes = @ + 1, !.releases = @ + 1,
                                     !.dialer = DialerClose(fails).dialer,
                                     !.closeErr = NoErr]
                 ELSE [client EXCEPT !.closes = @ + 1, !.closeErr = NoErr]
    /\ UNCHANGED <<attach, reqVars, esVars, fsVars>>

InitClose ==
    /\ client \in {NewClient(s, K1) : s \in Schemes}
    /\ call = NoCall
    /\ ret = NoRet
    /\ op = NoOp
    /\ sse = [lines |-> <<DataLine(1)>>, tail |-> << >>]
    /\ NoStream
    /\ NoUpdates
    /\ attach = NoAttach

NextClose == NextStreams \/ \E fails \in BOOLEAN : ClientClose(fails)

\* a client with its streams, and Client.Close called on it at any time
SpecClose == InitClose /\ [][NextClose]_vars

C18_WitnessDirect ==
    /\ ~client.dialClose /\ client.closes = 1 /\ client.dial = "nil"
    /\ stream.state = "open" /\ Producing /\ ~body.closed
    /\ Streaming /\ conn.state = "open"
====
